---- MODULE Spec2Model ----
(***************************************************************************)
(* A model of the platform-independent core of fsnotify (fsnotify.go):     *)
(* the Op bitmask and its rendering, Event.String, recursivePath and       *)
(* findDirs.  Text is a sequence of one-character strings, so that         *)
(* stripping, padding, quoting and path cleaning are computed character    *)
(* by character as the Go code and its library calls compute them.         *)
(* Paths use the Unix separator "/".                                       *)
(***************************************************************************)
EXTENDS Integers, Sequences, FiniteSets, TLC

VARIABLES
    e,        \* the Event under test: [Name, Op]
    h,        \* the argument of Has
    evCall,   \* the Event-model method that has been called ("" before the call)
    evRet,    \* what that method returned
    path,     \* the argument of recursivePath
    rpRets,   \* the results of the calls of recursivePath(path) so far
    fs,       \* the file system: path |-> "dir", "file" or "symlink"
    denied,   \* the directories whose listing fails (permission denied)
    phase,    \* "setup" while the tree is being built, "run" once a walk began
    limit,    \* how many entries the tree may hold below the root
    pc,       \* per goroutine: "idle", "walk", "return" or "done"
    stack,    \* per goroutine: the entries walkDir has still to visit, next first
    dirs,     \* per goroutine: findDirs' local slice dirs
    werr,     \* per goroutine: the error the walk ended with
    visits,   \* per goroutine: the paths the callback was called on, in order
    ret       \* per goroutine: what the call returned

evVars == <<e, h, evCall, evRet>>
pathVars == <<path, rpRets>>
envVars == <<fs, denied, phase, limit>>
goVars == <<pc, stack, dirs, werr, visits, ret>>
vars == <<e, h, evCall, evRet, path, rpRets, fs, denied, phase, limit,
          pc, stack, dirs, werr, visits, ret>>

(***************************************************************************)
(* Bounds of the model.                                                    *)
(***************************************************************************)
\* Op values range over 0 .. 2^OpBits - 1: the five flags and one bit that
\* is no flag.
OpBits == 6
\* Event names are the texts over NameChars of at most this length.
MaxNameLen == 2
\* Watch targets are the texts over PathChars of at most this length.
MaxPathLen == 6
\* recursivePath is called at most this many times on the same target.
MaxCalls == 2
\* The tree a single findDirs walks holds at most this many entries below its root.
MaxEntries == 4
\* The tree concurrent calls walk holds at most this many entries below its root.
MaxSharedEntries == 2
\* At most this many directories cannot be listed.
MaxDenied == 1
\* The number of goroutines that call concurrently.
NGoroutines == 2

(***************************************************************************)
(* type Op uint32 and its flags (const block, 1 << iota).                  *)
(***************************************************************************)
Create == 1
Write == 2
Remove == 4
Rename == 8
Chmod == 16

Flags == {Create, Write, Remove, Rename, Chmod}

RECURSIVE Pow2(_)
Pow2(n) == IF n = 0 THEN 1 ELSE 2 * Pow2(n - 1)

Ops == 0 .. (Pow2(OpBits) - 1)

\* Go's a & b on unsigned integers, bit by bit.
RECURSIVE BitAnd(_, _)
BitAnd(a, b) ==
    IF a = 0 \/ b = 0 THEN 0
    ELSE (a % 2) * (b % 2) + 2 * BitAnd(a \div 2, b \div 2)

\* A plausible slip: "has any of" instead of "has all of".
HasAny(o, g) == BitAnd(o, g) # 0

\* func (o Op) Has(h Op) bool { return o&h == h }
Has(o, g) == BitAnd(o, g) = g

\* func (e Event) Has(op Op) bool { return e.Op.Has(op) }
EventHas(ev, g) == Has(ev.Op, g)

(***************************************************************************)
(* Texts.                                                                  *)
(***************************************************************************)
sCREATE == <<"|", "C", "R", "E", "A", "T", "E">>
sREMOVE == <<"|", "R", "E", "M", "O", "V", "E">>
sWRITE == <<"|", "W", "R", "I", "T", "E">>
sRENAME == <<"|", "R", "E", "N", "A", "M", "E">>
sCHMOD == <<"|", "C", "H", "M", "O", "D">>
sNoEvents == <<"[", "n", "o", " ", "e", "v", "e", "n", "t", "s", "]">>

\* b.WriteString(s) when the flag is set.
WriteIf(b, cond, s) == IF cond THEN b \o s ELSE b

\* A plausible slip: the tags written in the order the bits are declared.
OpStringBitOrder(o) ==
    LET b1 == WriteIf(<<>>, Has(o, Create), sCREATE)
        b2 == WriteIf(b1, Has(o, Write), sWRITE)
        b3 == WriteIf(b2, Has(o, Remove), sREMOVE)
        b4 == WriteIf(b3, Has(o, Rename), sRENAME)
        b5 == WriteIf(b4, Has(o, Chmod), sCHMOD)
    IN  IF Len(b5) = 0 THEN sNoEvents ELSE Tail(b5)

\* func (o Op) String() string
OpString(o) ==
    LET b1 == WriteIf(<<>>, Has(o, Create), sCREATE)
        b2 == WriteIf(b1, Has(o, Remove), sREMOVE)
        b3 == WriteIf(b2, Has(o, Write), sWRITE)
        b4 == WriteIf(b3, Has(o, Rename), sRENAME)
        b5 == WriteIf(b4, Has(o, Chmod), sCHMOD)
    IN  IF Len(b5) = 0 THEN sNoEvents ELSE Tail(b5)

\* The width of the verb %-13s.
LabelWidth == 13

RECURSIVE Spaces(_)
Spaces(n) == IF n <= 0 THEN <<>> ELSE <<" ">> \o Spaces(n - 1)

\* A plausible slip: %s, no padding.
PadNone(s, n) == s

\* fmt's %-Ns: the text, then spaces up to N characters; a longer text is
\* written whole.
PadRight(s, n) == s \o Spaces(n - Len(s))

\* A plausible slip: the double quote written without its backslash.
QuoteCharNoEscape(c) ==
    IF c = "\\" THEN <<"\\", "\\">>
    ELSE IF c = "\n" THEN <<"\\", "n">>
    ELSE <<c>>

\* strconv.Quote on one character of NameChars.
QuoteChar(c) ==
    IF c = "\"" THEN <<"\\", "\"">>
    ELSE IF c = "\\" THEN <<"\\", "\\">>
    ELSE IF c = "\n" THEN <<"\\", "n">>
    ELSE <<c>>

RECURSIVE QuoteBody(_)
QuoteBody(s) == IF s = <<>> THEN <<>> ELSE QuoteChar(Head(s)) \o QuoteBody(Tail(s))

\* fmt's %q: strconv.Quote.
Quote(s) == <<"\"">> \o QuoteBody(s) \o <<"\"">>

\* func (e Event) String() string: fmt.Sprintf("%-13s %q", e.Op.String(), e.Name)
EventString(ev) == PadRight(OpString(ev.Op), LabelWidth) \o <<" ">> \o Quote(ev.Name)

(***************************************************************************)
(* The inputs.                                                             *)
(***************************************************************************)
NameChars == {"a", "n", "/", " ", "\"", "\\", "\n"}

RECURSIVE TextsUpTo(_, _)
TextsUpTo(chars, n) ==
    IF n = 0 THEN {<<>>}
    ELSE LET shorter == TextsUpTo(chars, n - 1)
         IN  shorter \cup {Append(s, c) : s \in shorter, c \in chars}

DirFile == <<"d", "i", "r", "/", "f", "i", "l", "e">>

Names == TextsUpTo(NameChars, MaxNameLen) \cup {DirFile}

NoRet == [none |-> TRUE]

\* The parts of the state a specification does not use.
EventIdle ==
    /\ e = [Name |-> <<>>, Op |-> 0]
    /\ h = 0
    /\ evCall = ""
    /\ evRet = NoRet

PathIdle ==
    /\ path = <<>>
    /\ rpRets = <<>>

WalkIdle ==
    /\ fs = <<>>
    /\ denied = {}
    /\ phase = "setup"
    /\ limit = 0
    /\ pc = <<>>
    /\ stack = <<>>
    /\ dirs = <<>>
    /\ werr = <<>>
    /\ visits = <<>>
    /\ ret = <<>>

(***************************************************************************)
(* Calls of Has.                                                           *)
(***************************************************************************)
InitHas ==
    /\ e \in [Name : {<<>>}, Op : Ops]
    /\ h \in Ops
    /\ evCall = ""
    /\ evRet = NoRet
    /\ PathIdle
    /\ WalkIdle

CallOpHas ==
    /\ evCall = ""
    /\ evCall' = "Op.Has"
    /\ evRet' = Has(e.Op, h)
    /\ UNCHANGED <<e, h, pathVars, envVars, goVars>>

CallEventHas ==
    /\ evCall = ""
    /\ evCall' = "Event.Has"
    /\ evRet' = EventHas(e, h)
    /\ UNCHANGED <<e, h, pathVars, envVars, goVars>>

NextHas == CallOpHas \/ CallEventHas

SpecHas == InitHas /\ [][NextHas]_vars

(***************************************************************************)
(* Calls of String.                                                        *)
(***************************************************************************)
InitString ==
    /\ e \in [Name : Names, Op : Ops]
    /\ h = 0
    /\ evCall = ""
    /\ evRet = NoRet
    /\ PathIdle
    /\ WalkIdle

CallOpString ==
    /\ evCall = ""
    /\ evCall' = "Op.String"
    /\ evRet' = OpString(e.Op)
    /\ UNCHANGED <<e, h, pathVars, envVars, goVars>>

CallEventString ==
    /\ evCall = ""
    /\ evCall' = "Event.String"
    /\ evRet' = EventString(e)
    /\ UNCHANGED <<e, h, pathVars, envVars, goVars>>

NextString == CallOpString \/ CallEventString

SpecString == InitString /\ [][NextString]_vars

(***************************************************************************)
(* Claims about Has.                                                       *)
(***************************************************************************)
BitsOf(x) == {i \in 0 .. (OpBits - 1) : (x \div Pow2(i)) % 2 = 1}

FlagSetOf(o) == {f \in Flags : (o \div f) % 2 = 1}

RECURSIVE OpOf(_)
OpOf(S) == IF S = {} THEN 0 ELSE LET f == CHOOSE x \in S : TRUE IN f + OpOf(S \ {f})

\* C1: o.Has(h), and Event.Has(h) on an event whose Op is o, is true exactly
\* when every bit set in h is set in o; for the Op built from a subset S of
\* the five flags, Has(f) is true exactly for the flags f of S.
C1_HasIsBitContainment ==
    evCall \in {"Op.Has", "Event.Has"} =>
        /\ evRet = (BitsOf(h) \subseteq BitsOf(e.Op))
        /\ \A S \in SUBSET Flags : \A f \in Flags :
               (e.Op = OpOf(S) /\ h = f) => (evRet = (f \in S))

\* A composite h, part of which is missing from o, through Event.Has.
C1_Witness ==
    /\ evCall = "Event.Has"
    /\ e.Op = Create + Write + Chmod
    /\ h = Write + Remove
    /\ evRet = FALSE

(***************************************************************************)
(* Claims about String.                                                    *)
(***************************************************************************)
RenderOrder == <<Create, Remove, Write, Rename, Chmod>>

TagOf(f) ==
    CASE f = Create -> <<"C", "R", "E", "A", "T", "E">>
      [] f = Remove -> <<"R", "E", "M", "O", "V", "E">>
      [] f = Write -> <<"W", "R", "I", "T", "E">>
      [] f = Rename -> <<"R", "E", "N", "A", "M", "E">>
      [] f = Chmod -> <<"C", "H", "M", "O", "D">>

RECURSIVE JoinTags(_)
JoinTags(fl) ==
    IF fl = <<>> THEN <<>>
    ELSE IF Len(fl) = 1 THEN TagOf(fl[1])
    ELSE TagOf(fl[1]) \o <<"|">> \o JoinTags(Tail(fl))

IsSet(f, o) == f \in FlagSetOf(o)

SetFlagsInOrder(o) == SelectSeq(RenderOrder, LAMBDA f : IsSet(f, o))

\* C2: Op.String() is the tags of exactly the set flags, in the order CREATE,
\* REMOVE, WRITE, RENAME, CHMOD, joined by single "|" with none leading or
\* trailing; "[no events]" when no flag is set; Create|Write is "CREATE|WRITE".
C2_OpStringRendering ==
    evCall = "Op.String" =>
        /\ evRet = IF FlagSetOf(e.Op) = {}
                   THEN <<"[", "n", "o", " ", "e", "v", "e", "n", "t", "s", "]">>
                   ELSE JoinTags(SetFlagsInOrder(e.Op))
        /\ e.Op = Create + Write =>
               evRet = <<"C", "R", "E", "A", "T", "E", "|", "W", "R", "I", "T", "E">>
        /\ e.Op = 0 => evRet = <<"[", "n", "o", " ", "e", "v", "e", "n", "t", "s", "]">>

\* Write and Remove together: the rendering order is not the bit order.
C2_Witness ==
    /\ evCall = "Op.String"
    /\ e.Op = Write + Remove
    /\ evRet = <<"R", "E", "M", "O", "V", "E", "|", "W", "R", "I", "T", "E">>

RECURSIVE FirstIndex(_, _, _)
\* The least index >= i of character c in s; Len(s) + 1 when there is none.
FirstIndex(s, c, i) ==
    IF i > Len(s) THEN Len(s) + 1
    ELSE IF s[i] = c THEN i
    ELSE FirstIndex(s, c, i + 1)

\* The column (from 1) at which the quoted path starts.
QuoteColumn(text) == FirstIndex(text, "\"", 1)

Max(a, b) == IF a >= b THEN a ELSE b

\* C10 as stated: the quoted path starts at the same column of the output
\* whatever combination of flags the event carries.
C10_FixedColumn ==
    evCall = "Event.String" => QuoteColumn(evRet) = LabelWidth + 2

\* C10 amended: the label is padded to at least 13 columns and followed by one
\* space; the quoted path starts at column 15 when the label has at most 13
\* characters and right after the label and one space when it is longer.
C10_MinWidthColumn ==
    evCall = "Event.String" =>
        LET label == IF FlagSetOf(e.Op) = {}
                     THEN <<"[", "n", "o", " ", "e", "v", "e", "n", "t", "s", "]">>
                     ELSE JoinTags(SetFlagsInOrder(e.Op))
            col == QuoteColumn(evRet)
        IN  /\ col = Max(Len(label), LabelWidth) + 2
            /\ SubSeq(evRet, 1, Len(label)) = label
            /\ \A i \in (Len(label) + 1) .. (col - 1) : evRet[i] = " "
            /\ Len(label) <= LabelWidth => col = LabelWidth + 2

\* A short label (padded) on the example event.
C10_Witness ==
    /\ evCall = "Event.String"
    /\ e = [Name |-> DirFile, Op |-> Create + Write]
    /\ QuoteColumn(evRet) = 15

(***************************************************************************)
(* A reader of Event.String's output: the label up to the first double     *)
(* quote, less its padding, then the quoted path.                          *)
(***************************************************************************)
\* What the reader gives for a text it cannot read: no path and no flag set.
FailText == <<"<unreadable>">>
FailOps == {-1}

RECURSIVE TrimRight(_)
TrimRight(s) ==
    IF s # <<>> /\ s[Len(s)] = " " THEN TrimRight(SubSeq(s, 1, Len(s) - 1)) ELSE s

RECURSIVE SplitBar(_, _)
\* The pieces of s between "|" characters; cur is the piece being read.
SplitBar(s, cur) ==
    IF s = <<>> THEN <<cur>>
    ELSE IF Head(s) = "|" THEN <<cur>> \o SplitBar(Tail(s), <<>>)
    ELSE SplitBar(Tail(s), Append(cur, Head(s)))

ParseLabel(label) ==
    IF label = <<"[", "n", "o", " ", "e", "v", "e", "n", "t", "s", "]">> THEN {}
    ELSE LET parts == SplitBar(label, <<>>)
             known == \A i \in 1 .. Len(parts) : \E f \in Flags : TagOf(f) = parts[i]
         IN  IF known
             THEN {f \in Flags : \E i \in 1 .. Len(parts) : TagOf(f) = parts[i]}
             ELSE FailOps

RECURSIVE UnquoteBody(_, _)
\* Reads s after the opening quote up to the closing quote, which must end s.
UnquoteBody(s, acc) ==
    IF s = <<>> THEN FailText
    ELSE IF Head(s) = "\"" THEN (IF Len(s) = 1 THEN acc ELSE FailText)
    ELSE IF Head(s) = "\\"
         THEN IF Len(s) < 2 THEN FailText
              ELSE IF s[2] = "n" THEN UnquoteBody(Tail(Tail(s)), Append(acc, "\n"))
              ELSE IF s[2] \in {"\"", "\\"} THEN UnquoteBody(Tail(Tail(s)), Append(acc, s[2]))
              ELSE FailText
    ELSE UnquoteBody(Tail(s), Append(acc, Head(s)))

ParseEvent(text) ==
    LET q == QuoteColumn(text)
    IN  IF q > Len(text) \/ q < 2 \/ text[q - 1] # " "
        THEN [Name |-> FailText, Ops |-> FailOps]
        ELSE [Name |-> UnquoteBody(SubSeq(text, q + 1, Len(text)), <<>>),
              Ops |-> ParseLabel(TrimRight(SubSeq(text, 1, q - 1)))]

\* C9: for an Event whose Op is a combination of the five flags, reading
\* Event.String()'s output back (the label, then the quoted path) recovers the
\* same set of operations and the same path.
C9_EventStringRoundTrip ==
    (evCall = "Event.String" /\ e.Op < Pow2(Cardinality(Flags))) =>
        ParseEvent(evRet) = [Name |-> e.Name, Ops |-> FlagSetOf(e.Op)]

\* A path that needs escaping, under a label longer than the padding.
C9_Witness ==
    /\ evCall = "Event.String"
    /\ e = [Name |-> <<"\"", "\\">>, Op |-> Create + Remove + Write]
    /\ ParseEvent(evRet) = [Name |-> e.Name, Ops |-> {Create, Remove, Write}]

(***************************************************************************)
(* path/filepath on Unix, as recursivePath uses it.                        *)
(***************************************************************************)
Dot == <<".">>
Marker == <<".", ".", ".">>

\* The index of the first "/" of p at or after i; Len(p) + 1 when none.
NextSep(p, i) == FirstIndex(p, "/", i)

\* Clean's ".." step on the output buffer: drop the last element written.
RECURSIVE BackUp(_, _, _)
BackUp(out, w, dotdot) ==
    IF w > dotdot /\ out[w + 1] # "/" THEN BackUp(out, w - 1, dotdot)
    ELSE SubSeq(out, 1, w)

RECURSIVE CleanLoop(_, _, _, _, _)
\* The loop of filepath.Clean: i is the (1-based) read position in p, out the
\* buffer written so far, dotdot the length of the prefix ".." cannot remove.
CleanLoop(p, i, out, dotdot, rooted) ==
    LET n == Len(p)
    IN  IF i > n THEN out
        ELSE IF p[i] = "/" THEN CleanLoop(p, i + 1, out, dotdot, rooted)
        ELSE IF p[i] = "." /\ (i = n \/ p[i + 1] = "/")
             THEN CleanLoop(p, i + 1, out, dotdot, rooted)
        ELSE IF p[i] = "." /\ p[i + 1] = "." /\ (i + 1 = n \/ p[i + 2] = "/")
             THEN IF Len(out) > dotdot
                  THEN CleanLoop(p, i + 2, BackUp(out, Len(out) - 1, dotdot), dotdot, rooted)
                  ELSE IF ~rooted
                  THEN LET o2 == (IF Len(out) > 0 THEN Append(out, "/") ELSE out)
                                     \o <<".", ".">>
                       IN  CleanLoop(p, i + 2, o2, Len(o2), rooted)
                  ELSE CleanLoop(p, i + 2, out, dotdot, rooted)
        ELSE LET o1 == IF (rooted /\ Len(out) # 1) \/ (~rooted /\ Len(out) # 0)
                       THEN Append(out, "/") ELSE out
                 j == NextSep(p, i)
             IN  CleanLoop(p, j, o1 \o SubSeq(p, i, j - 1), dotdot, rooted)

\* filepath.Clean
Clean(p) ==
    IF p = <<>> THEN Dot
    ELSE LET rooted == p[1] = "/"
             out == IF rooted THEN CleanLoop(p, 2, <<"/">>, 1, TRUE)
                    ELSE CleanLoop(p, 1, <<>>, 0, FALSE)
         IN  IF out = <<>> THEN Dot ELSE out

RECURSIVE StripTrailingSeps(_)
StripTrailingSeps(p) ==
    IF p # <<>> /\ p[Len(p)] = "/" THEN StripTrailingSeps(SubSeq(p, 1, Len(p) - 1)) ELSE p

RECURSIVE LastSepIndex(_, _)
\* The greatest index <= i of a "/" in p; 0 when there is none.
LastSepIndex(p, i) ==
    IF i = 0 THEN 0 ELSE IF p[i] = "/" THEN i ELSE LastSepIndex(p, i - 1)

\* filepath.Base
Base(p) ==
    IF p = <<>> THEN Dot
    ELSE LET q == StripTrailingSeps(p)
             i == LastSepIndex(q, Len(q))
             b == SubSeq(q, i + 1, Len(q))
         IN  IF b = <<>> THEN <<"/">> ELSE b

\* filepath.Dir
Dir(p) == Clean(SubSeq(p, 1, LastSepIndex(p, Len(p))))

\* A plausible change: the target cleaned before it is looked at, so that the
\* cleaned text is what comes back.
recursivePathCleaned(p) ==
    LET c == Clean(p)
    IN  IF Base(c) = Marker THEN [path |-> Dir(c), recursive |-> TRUE]
        ELSE [path |-> c, recursive |-> FALSE]

\* func recursivePath(path string) (string, bool)
recursivePath(p) ==
    IF Base(p) = Marker THEN [path |-> Dir(p), recursive |-> TRUE]
    ELSE [path |-> p, recursive |-> FALSE]

(***************************************************************************)
(* Calls of recursivePath.                                                 *)
(***************************************************************************)
PathChars == {"/", ".", "a"}

sABMarker == <<"/", "a", "/", "b", "/", ".", ".", ".">>
sAB == <<"/", "a", "/", "b">>
sABMarkerSep == <<"/", "a", "/", "b", "/", ".", ".", ".", "/">>

Paths == TextsUpTo(PathChars, MaxPathLen) \cup {sABMarker, sAB, sABMarkerSep}

InitPath ==
    /\ EventIdle
    /\ WalkIdle
    /\ path \in Paths
    /\ rpRets = <<>>

CallRecursivePath ==
    /\ Len(rpRets) < MaxCalls
    /\ rpRets' = Append(rpRets, recursivePath(path))
    /\ UNCHANGED <<evVars, path, envVars, goVars>>

NextPath == CallRecursivePath

SpecPath == InitPath /\ [][NextPath]_vars

(***************************************************************************)
(* Claims about recursivePath.                                             *)
(***************************************************************************)
RECURSIVE SplitSep(_, _)
\* The non-empty pieces of p between "/" characters; cur is the piece being read.
SplitSep(p, cur) ==
    IF p = <<>> THEN (IF cur = <<>> THEN <<>> ELSE <<cur>>)
    ELSE IF Head(p) = "/"
         THEN (IF cur = <<>> THEN <<>> ELSE <<cur>>) \o SplitSep(Tail(p), <<>>)
    ELSE SplitSep(Tail(p), Append(cur, Head(p)))

Segments(p) == SplitSep(p, <<>>)

FinalSegmentIsMarker(p) ==
    LET s == Segments(p) IN s # <<>> /\ s[Len(s)] = <<".", ".", ".">>

\* What precedes the final segment of p.
BeforeFinalSegment(p) ==
    LET q == StripTrailingSeps(p)
        s == Segments(p)
    IN  SubSeq(q, 1, Len(q) - Len(s[Len(s)]))

\* C3: when the final segment of the path is "..." (the bare "..." and a marker
\* followed by separators included), recursivePath returns true and the parent
\* directory, the input with the marker segment stripped;
\* recursivePath("/a/b/...") is ("/a/b", true).
C3_MarkerStripped ==
    \A k \in 1 .. Len(rpRets) :
        /\ FinalSegmentIsMarker(path) =>
               /\ rpRets[k].recursive
               /\ Clean(rpRets[k].path) = Clean(BeforeFinalSegment(path))
        /\ path = sABMarker => rpRets[k] = [path |-> sAB, recursive |-> TRUE]

\* C4: when the final segment of the path is not "...", recursivePath returns
\* the input unchanged, character for character, with the flag false, on every
\* call.
C4_OtherPathsUnchanged ==
    ~FinalSegmentIsMarker(path) =>
        \A k \in 1 .. Len(rpRets) : rpRets[k] = [path |-> path, recursive |-> FALSE]

\* An uncleaned path with the marker in a segment that is not the last,
\* resolved twice.
C4_Witness ==
    /\ path = <<".", ".", ".", "/", "/", "a">>
    /\ Len(rpRets) = 2
    /\ rpRets[1] = [path |-> path, recursive |-> FALSE]
    /\ rpRets[2] = rpRets[1]

(***************************************************************************)
(* The file system, as os.Lstat and os.ReadDir show it to                  *)
(* filepath.WalkDir.                                                       *)
(***************************************************************************)
RootPath == <<"r", "o", "o", "t">>
nLink == <<"l", "i", "n", "k">>
nSub == <<"s", "u", "b">>
nXTxt == <<"x", ".", "t", "x", "t">>
nYTxt == <<"y", ".", "t", "x", "t">>

nEtc == <<"e", "t", "c">>

\* The entry names, in the order os.ReadDir lists them (sorted by filename).
NameOrder == <<nEtc, nLink, nSub, nXTxt, nYTxt>>

EntryNames == {NameOrder[i] : i \in 1 .. Len(NameOrder)}

Kinds == {"dir", "file", "symlink"}

\* What an entry of each name may be.  The walk never looks at a name, only at
\* the order of the listing, so the names only fix where each kind of entry
\* comes in that order.
KindsOf(name) ==
    IF name = nEtc THEN {"dir"}
    ELSE IF name = nLink THEN {"symlink"}
    ELSE IF name = nSub THEN {"dir", "file"}
    ELSE {"file"}

\* filepath.Join(p, name)
Join(p, name) == Clean(p \o <<"/">> \o name)

\* Every symbolic link of the tree points to root/sub, which may be a
\* directory, a file, a link or missing.
LinkTarget == Join(RootPath, nSub)

NilErr == [kind |-> "nil", path |-> <<>>]
ENOENT(p) == [kind |-> "ENOENT", path |-> p]
EACCES(p) == [kind |-> "EACCES", path |-> p]
ENOTDIR(p) == [kind |-> "ENOTDIR", path |-> p]

\* fmt.Errorf("%q: %w", path, ErrNotDirectory)
ErrNotDirectory(p) == [kind |-> "ErrNotDirectory", path |-> p]

\* os.Lstat(p): the entry itself, a link not followed.
Lstat(p) ==
    IF p \in DOMAIN fs THEN [type |-> fs[p], err |-> NilErr]
    ELSE [type |-> "none", err |-> ENOENT(p)]

RECURSIVE Resolve(_)
\* The entry the kernel reaches for p, links followed.
Resolve(p) ==
    IF p \in DOMAIN fs THEN (IF fs[p] = "symlink" THEN LinkTarget ELSE p)
    ELSE IF Len(p) <= Len(RootPath) THEN p
    ELSE LET q == Join(Resolve(Dir(p)), Base(p))
         IN  IF q \in DOMAIN fs /\ fs[q] = "symlink" THEN LinkTarget ELSE q

\* os.ReadDir(p): the entries of the directory, sorted by filename, each with
\* its own type (a link is a link).
ReadDir(p) ==
    LET r == Resolve(p)
    IN  IF r \notin DOMAIN fs THEN [entries |-> <<>>, err |-> ENOENT(p)]
        ELSE IF fs[r] # "dir" THEN [entries |-> <<>>, err |-> ENOTDIR(p)]
        ELSE IF r \in denied THEN [entries |-> <<>>, err |-> EACCES(p)]
        ELSE LET present == SelectSeq(NameOrder, LAMBDA n : Join(r, n) \in DOMAIN fs)
             IN  [entries |-> [i \in 1 .. Len(present) |->
                                  [path |-> Join(p, present[i]),
                                   type |-> fs[Join(r, present[i])]]],
                  err |-> NilErr]

\* A plausible slip: the type taken with links followed (os.Stat).
IsDirFollowingLinks(d) ==
    \/ d.type = "dir"
    \/ /\ d.type = "symlink"
       /\ LinkTarget \in DOMAIN fs
       /\ fs[LinkTarget] = "dir"

\* fs.DirEntry.IsDir
IsDir(d) == d.type = "dir"

(***************************************************************************)
(* findDirs.                                                               *)
(***************************************************************************)
\* A plausible slip: the root test left out of the not-a-directory check.
walkFnNoRootTest(rootArg, ds, p, d, err) ==
    IF err # NilErr THEN [err |-> err, dirs |-> ds]
    ELSE IF ~IsDir(d) THEN [err |-> ErrNotDirectory(rootArg), dirs |-> ds]
    ELSE [err |-> NilErr, dirs |-> Append(ds, p)]

\* The callback findDirs hands to filepath.WalkDir; rootArg is findDirs'
\* argument, ds its slice dirs; returns the error and the slice afterwards.
walkFn(rootArg, ds, p, d, err) ==
    IF err # NilErr THEN [err |-> err, dirs |-> ds]
    ELSE IF p = rootArg /\ ~IsDir(d) THEN [err |-> ErrNotDirectory(rootArg), dirs |-> ds]
    ELSE IF IsDir(d) THEN [err |-> NilErr, dirs |-> Append(ds, p)]
    ELSE [err |-> NilErr, dirs |-> ds]

\* A plausible slip: what was collected returned along with the error.
findDirsReturnPartial(ds, err) == [dirs |-> ds, err |-> err]

\* if err != nil { return nil, err }; return dirs, nil
findDirsReturn(ds, err) ==
    IF err # NilErr THEN [dirs |-> <<>>, err |-> err]
    ELSE [dirs |-> ds, err |-> NilErr]

\* A plausible slip: one slice for all calls (a package-level dirs).
StoreDirsShared(g, ds) == [x \in DOMAIN dirs |-> ds]

\* dirs = ... : the slice is a local of the call.
StoreDirs(g, ds) == [dirs EXCEPT ![g] = ds]

NoRp == [path |-> <<>>, recursive |-> FALSE]
NoRetW == [call |-> "", arg |-> <<>>, dirs |-> <<>>, err |-> NilErr, rp |-> NoRp]

Goroutines == 1 .. NGoroutines

(***************************************************************************)
(* The environment builds the tree before any walk starts.                 *)
(***************************************************************************)
EntriesBelowRoot == Cardinality(DOMAIN fs \ {RootPath})

\* mkdir, create or symlink of a new entry in an existing directory.
AddEntry(parent, name, kind) ==
    /\ phase = "setup"
    /\ parent \in DOMAIN fs
    /\ fs[parent] = "dir"
    /\ Join(parent, name) \notin DOMAIN fs
    /\ EntriesBelowRoot < limit
    /\ fs' = (Join(parent, name) :> kind) @@ fs
    /\ UNCHANGED <<denied, phase, limit, evVars, pathVars, goVars>>

\* chmod 000 on a directory.
Deny(p) ==
    /\ phase = "setup"
    /\ p \in DOMAIN fs
    /\ fs[p] = "dir"
    /\ p \notin denied
    /\ Cardinality(denied) < MaxDenied
    /\ denied' = denied \cup {p}
    /\ UNCHANGED <<fs, phase, limit, evVars, pathVars, goVars>>

\* The root: missing, or an entry of any kind.
RootChoices == {<<>>} \cup {(RootPath :> k) : k \in Kinds}

InitWalk(active, maxEntries) ==
    /\ fs \in RootChoices
    /\ denied = {}
    /\ phase = "setup"
    /\ limit = maxEntries
    /\ pc = [g \in active |-> "idle"]
    /\ stack = [g \in active |-> <<>>]
    /\ dirs = [g \in active |-> <<>>]
    /\ werr = [g \in active |-> NilErr]
    /\ visits = [g \in active |-> <<>>]
    /\ ret = [g \in active |-> NoRetW]

(***************************************************************************)
(* The steps of a call findDirs(RootPath) by goroutine g.                  *)
(***************************************************************************)
\* dirs := make(...); filepath.WalkDir: os.Lstat(root), and the callback on the
\* root with the error when that fails.
FindDirsCall(g) ==
    /\ pc[g] = "idle"
    /\ phase' = "run"
    /\ LET info == Lstat(RootPath)
       IN  IF info.err # NilErr
           THEN LET r == walkFn(RootPath, <<>>, RootPath, [path |-> RootPath, type |-> "none"], info.err)
                IN  /\ dirs' = StoreDirs(g, r.dirs)
                    /\ werr' = [werr EXCEPT ![g] = r.err]
                    /\ pc' = [pc EXCEPT ![g] = "return"]
                    /\ stack' = stack
           ELSE /\ dirs' = StoreDirs(g, <<>>)
                /\ stack' = [stack EXCEPT ![g] = <<[path |-> RootPath, type |-> info.type]>>]
                /\ pc' = [pc EXCEPT ![g] = "walk"]
                /\ werr' = werr
    /\ UNCHANGED <<fs, denied, limit, visits, ret, evVars, pathVars>>

\* walkDir on the next entry: the callback, then for a directory os.ReadDir
\* (the callback again with the error when that fails) and its entries next.
Visit(g) ==
    /\ pc[g] = "walk"
    /\ stack[g] # <<>>
    /\ LET d == Head(stack[g])
           rest == Tail(stack[g])
           r == walkFn(RootPath, dirs[g], d.path, d, NilErr)
           rd == ReadDir(d.path)
           r2 == walkFn(RootPath, r.dirs, d.path, d, rd.err)
           after(s) == IF s = <<>> THEN "return" ELSE "walk"
       IN  /\ visits' = [visits EXCEPT ![g] = Append(@, d.path)]
           /\ IF r.err # NilErr
              THEN /\ dirs' = StoreDirs(g, r.dirs)
                   /\ werr' = [werr EXCEPT ![g] = r.err]
                   /\ pc' = [pc EXCEPT ![g] = "return"]
                   /\ stack' = stack
              ELSE IF ~IsDir(d)
              THEN /\ dirs' = StoreDirs(g, r.dirs)
                   /\ stack' = [stack EXCEPT ![g] = rest]
                   /\ pc' = [pc EXCEPT ![g] = after(rest)]
                   /\ werr' = werr
              ELSE IF rd.err # NilErr /\ r2.err # NilErr
              THEN /\ dirs' = StoreDirs(g, r2.dirs)
                   /\ werr' = [werr EXCEPT ![g] = r2.err]
                   /\ pc' = [pc EXCEPT ![g] = "return"]
                   /\ stack' = stack
              ELSE /\ dirs' = StoreDirs(g, r.dirs)
                   /\ stack' = [stack EXCEPT ![g] = rd.entries \o rest]
                   /\ pc' = [pc EXCEPT ![g] = after(rd.entries \o rest)]
                   /\ werr' = werr
    /\ UNCHANGED <<envVars, ret, evVars, pathVars>>

\* findDirs returns.
FindDirsReturn(g) ==
    /\ pc[g] = "return"
    /\ LET r == findDirsReturn(dirs[g], werr[g])
       IN  ret' = [ret EXCEPT ![g] = [call |-> "findDirs", arg |-> RootPath,
                                      dirs |-> r.dirs, err |-> r.err, rp |-> NoRp]]
    /\ pc' = [pc EXCEPT ![g] = "done"]
    /\ UNCHANGED <<envVars, stack, dirs, werr, visits, evVars, pathVars>>

Setup ==
    \/ \E parent \in DOMAIN fs, name \in EntryNames :
           \E kind \in KindsOf(name) : AddEntry(parent, name, kind)
    \/ \E p \in DOMAIN fs : Deny(p)

InitFindDirs ==
    /\ EventIdle
    /\ PathIdle
    /\ InitWalk({1}, MaxEntries)

NextFindDirs ==
    \/ Setup
    \/ \E g \in DOMAIN pc : FindDirsCall(g)
    \/ \E g \in DOMAIN pc : Visit(g)
    \/ \E g \in DOMAIN pc : FindDirsReturn(g)

SpecFindDirs == InitFindDirs /\ [][NextFindDirs]_vars

(***************************************************************************)
(* Claims about findDirs.                                                  *)
(***************************************************************************)
Returned(g) == pc[g] = "done" /\ ret[g].call = "findDirs"

Elements(s) == {s[i] : i \in 1 .. Len(s)}

RECURSIVE UnderRealDirs(_)
\* p is the root, or lies in a real directory that does.
UnderRealDirs(p) ==
    \/ p = RootPath
    \/ /\ Len(p) > Len(RootPath)
       /\ Dir(p) \in DOMAIN fs
       /\ fs[Dir(p)] = "dir"
       /\ UnderRealDirs(Dir(p))

\* The root and every real directory nested under it.
RealDirs == {p \in DOMAIN fs : fs[p] = "dir" /\ UnderRealDirs(p)}

\* root/{x.txt, sub/{y.txt}, link -> sub}
ExampleTree ==
    (RootPath :> "dir")
    @@ (RootPath \o <<"/">> \o nXTxt :> "file")
    @@ (RootPath \o <<"/">> \o nSub :> "dir")
    @@ (RootPath \o <<"/">> \o nSub \o <<"/">> \o nYTxt :> "file")
    @@ (RootPath \o <<"/">> \o nLink :> "symlink")

\* C5: a successful findDirs(root) returns the root first and then exactly the
\* real directories nested under it, each once and after its parent; no file,
\* no symbolic link and nothing below a symbolic link appears.  For
\* root/{x.txt, sub/{y.txt}, link -> sub} the result is [root, root/sub].
C5_ExactlyTheRealDirs ==
    \A g \in DOMAIN pc :
        (Returned(g) /\ ret[g].err = NilErr) =>
            LET ds == ret[g].dirs
            IN  /\ RootPath \in DOMAIN fs
                /\ fs[RootPath] = "dir"
                /\ ds # <<>>
                /\ ds[1] = RootPath
                /\ Elements(ds) = RealDirs
                /\ Len(ds) = Cardinality(RealDirs)
                /\ \A i \in 2 .. Len(ds) : \E j \in 1 .. (i - 1) : ds[j] = Dir(ds[i])
                /\ fs = ExampleTree => ds = <<RootPath, RootPath \o <<"/">> \o nSub>>

C5_Witness ==
    /\ fs = ExampleTree
    /\ Returned(1)
    /\ ret[1] = [call |-> "findDirs", arg |-> RootPath,
                 dirs |-> <<RootPath, RootPath \o <<"/">> \o nSub>>,
                 err |-> NilErr, rp |-> NoRp]
    /\ Len(visits[1]) = 5

\* C6: findDirs(rootPath) fails with the not-a-directory error, carrying
\* rootPath, exactly when the first entry the traversal visits, the root, is
\* not a directory; an entry below the root that is no directory never does.
C6_NotDirectoryOnlyForRoot ==
    \A g \in DOMAIN pc :
        Returned(g) =>
            /\ (ret[g].err.kind = "ErrNotDirectory")
                   <=> (RootPath \in DOMAIN fs /\ fs[RootPath] # "dir")
            /\ ret[g].err.kind = "ErrNotDirectory" =>
                   /\ ret[g].err.path = RootPath
                   /\ visits[g] = <<RootPath>>

\* The root is a regular file.
C6_Witness ==
    /\ Returned(1)
    /\ RootPath \in DOMAIN fs
    /\ fs[RootPath] = "file"
    /\ ret[1].err = [kind |-> "ErrNotDirectory", path |-> RootPath]

\* Entries that are no directories were visited below the root of a walk that
\* succeeded.
C6_WitnessBelowRoot ==
    /\ Returned(1)
    /\ ret[1].err = NilErr
    /\ \E i \in 2 .. Len(visits[1]) : fs[visits[1][i]] # "dir"

\* The errors the file system has reported to the walk of g so far: for a
\* missing root, and for a visited directory that cannot be listed.
ReportedErrors(g) ==
    (IF pc[g] = "idle" \/ RootPath \in DOMAIN fs THEN {} ELSE {ENOENT(RootPath)})
    \cup {EACCES(p) : p \in (Elements(visits[g]) \cap denied)}

\* C7: when a traversal step reports an error, at the root or at any depth, the
\* walk visits nothing further, the error comes back unchanged and the returned
\* sequence is nil; a non-empty sequence comes only with no error.
C7_AllOrNothing ==
    \A g \in DOMAIN pc :
        /\ werr[g] # NilErr =>
               /\ pc[g] \in {"return", "done"}
               /\ visits[g] = <<>> \/ visits[g][Len(visits[g])] = werr[g].path
        /\ ReportedErrors(g) # {} => ReportedErrors(g) = {werr[g]}
        /\ Returned(g) =>
               /\ ReportedErrors(g) # {} => ret[g].err \in ReportedErrors(g)
               /\ ret[g].err # NilErr => ret[g].dirs = <<>>
               /\ ret[g].dirs # <<>> => ret[g].err = NilErr

\* A listing that fails below the root, after two directories were collected
\* and with entries still to visit.
C7_Witness ==
    /\ Returned(1)
    /\ ret[1].err.kind = "EACCES"
    /\ ret[1].err.path # RootPath
    /\ Len(dirs[1]) >= 2
    /\ Len(stack[1]) >= 2
    /\ ret[1].dirs = <<>>

(***************************************************************************)
(* Concurrent calls of findDirs and recursivePath.                         *)
(***************************************************************************)
sRootMarker == RootPath \o <<"/", ".", ".", ".">>

Targets == {RootPath, sRootMarker}

\* recursivePath(target) called by goroutine g.
RecursivePathCall(g, target) ==
    /\ pc[g] = "idle"
    /\ phase' = "run"
    /\ ret' = [ret EXCEPT ![g] = [call |-> "recursivePath", arg |-> target,
                                  dirs |-> <<>>, err |-> NilErr,
                                  rp |-> recursivePath(target)]]
    /\ pc' = [pc EXCEPT ![g] = "done"]
    /\ UNCHANGED <<fs, denied, limit, stack, dirs, werr, visits, evVars, pathVars>>

InitConcurrent ==
    /\ EventIdle
    /\ PathIdle
    /\ InitWalk(Goroutines, MaxSharedEntries)

NextConcurrent ==
    \/ Setup
    \/ \E g \in DOMAIN pc : FindDirsCall(g)
    \/ \E g \in DOMAIN pc : Visit(g)
    \/ \E g \in DOMAIN pc : FindDirsReturn(g)
    \/ \E g \in DOMAIN pc, target \in Targets : RecursivePathCall(g, target)

SpecConcurrent == InitConcurrent /\ [][NextConcurrent]_vars

(***************************************************************************)
(* Claims about concurrent calls.                                          *)
(***************************************************************************)
\* The entries of directory p, in listing order.
ChildrenOf(p) ==
    LET present == SelectSeq(NameOrder, LAMBDA n : (p \o <<"/">> \o n) \in DOMAIN fs)
    IN  [i \in 1 .. Len(present) |-> p \o <<"/">> \o present[i]]

RECURSIVE AloneEntry(_), AloneList(_)
\* What a walk that runs alone collects from entry p on, and the error that
\* ends it.
AloneEntry(p) ==
    IF fs[p] # "dir" THEN [dirs |-> <<>>, err |-> NilErr]
    ELSE IF p \in denied THEN [dirs |-> <<p>>, err |-> EACCES(p)]
    ELSE LET kids == AloneList(ChildrenOf(p))
         IN  [dirs |-> <<p>> \o kids.dirs, err |-> kids.err]

AloneList(ps) ==
    IF ps = <<>> THEN [dirs |-> <<>>, err |-> NilErr]
    ELSE LET a == AloneEntry(Head(ps))
         IN  IF a.err # NilErr THEN a
             ELSE LET b == AloneList(Tail(ps))
                  IN  [dirs |-> a.dirs \o b.dirs, err |-> b.err]

\* What findDirs(RootPath) returns when it runs alone on the tree.
FindDirsAlone ==
    IF RootPath \notin DOMAIN fs THEN [dirs |-> <<>>, err |-> ENOENT(RootPath)]
    ELSE IF fs[RootPath] # "dir" THEN [dirs |-> <<>>, err |-> ErrNotDirectory(RootPath)]
    ELSE LET w == AloneEntry(RootPath)
         IN  IF w.err # NilErr THEN [dirs |-> <<>>, err |-> w.err]
             ELSE [dirs |-> w.dirs, err |-> NilErr]

\* What recursivePath returns on the two targets.
RecursivePathAlone(target) ==
    IF target = sRootMarker THEN [path |-> RootPath, recursive |-> TRUE]
    ELSE [path |-> RootPath, recursive |-> FALSE]

\* C8: with findDirs and recursivePath calls running concurrently in any
\* interleaving of their steps on an unchanged file system, every call returns
\* what it returns when run alone, and a findDirs result holds only paths its
\* own walk visited, each once.
C8_ConcurrentCallsIndependent ==
    \A g \in DOMAIN pc :
        pc[g] = "done" =>
            IF ret[g].call = "findDirs"
            THEN /\ [dirs |-> ret[g].dirs, err |-> ret[g].err] = FindDirsAlone
                 /\ Elements(ret[g].dirs) \subseteq Elements(visits[g])
                 /\ Len(ret[g].dirs) = Cardinality(Elements(ret[g].dirs))
            ELSE ret[g].rp = RecursivePathAlone(ret[g].arg)

\* Goroutine 2 has returned two directories while goroutine 1 is in the middle
\* of its own walk of the same tree.
C8_Witness ==
    /\ Returned(2)
    /\ Len(ret[2].dirs) = 2
    /\ pc[1] = "walk"
    /\ Len(dirs[1]) = 1
    /\ Len(stack[1]) >= 1

====
